---------------------------- MODULE Spec2Model ----------------------------
(***************************************************************************)
(* newman-reporter-htmlextra, lib/index.js: the three handlers the         *)
(* reporter registers on the collection run (assertion, console,           *)
(* beforeDone).  The beforeDone handler reduces run.executions to per-ref  *)
(* aggregates (lodash _.transform), assembles the parent groups            *)
(* (_.forEach with the aggregator closure) and pushes the report onto      *)
(* this.exports.                                                           *)
(*                                                                         *)
(* JavaScript values are represented as follows.                           *)
(*   - a possibly-undefined value is a sequence of length at most one:     *)
(*     <<>> is undefined, <<v>> is v;                                      *)
(*   - an object used as a map keyed by cursor.ref is a function whose     *)
(*     DOMAIN is the set of its own keys;                                  *)
(*   - an object whose keys are enumerated (the per-ref assertion map) is  *)
(*     the sequence of its values in own-property order;                   *)
(*   - an object reference that is stored in two places (the report node   *)
(*     held both by items[ref] and by a group) is the key of the object    *)
(*     in items, so that a later write through one is seen by the other.   *)
(***************************************************************************)
EXTENDS Integers, Sequences, FiniteSets, TLC

VARIABLES
    executions,            \* this.summary.run.executions
    skippedTests,          \* this.summary.skippedTests
    consoleLogs,           \* this.summary.consoleLogs
    delivered,             \* the assertion and console events emitted so far
    exports,               \* this.exports
    items,                 \* locals of the beforeDone handler, as its last
                           \* call left them
    executionMeans,
    netTestCounts,
    aggregations,
    traversedRequests,
    aggregatedExecutions,
    assertions

vars == <<executions, skippedTests, consoleLogs, delivered, exports,
          items, executionMeans, netTestCounts, aggregations,
          traversedRequests, aggregatedExecutions, assertions>>

locals == <<items, executionMeans, netTestCounts, aggregations,
            traversedRequests, aggregatedExecutions, assertions>>

summaryLists == <<skippedTests, consoleLogs, delivered>>

-----------------------------------------------------------------------------
(* Bounds of the checked runs.                                             *)

MaxExecutions == 4   \* records of a run that exercises grouping
MaxIterations == 2   \* records of a run that exercises assertion counting
MaxAssertions == 2   \* assertions of one record in a pass/fail run
MaxSamples == 2      \* records of a run that exercises response time and size
MaxEvents == 2       \* assertion and console events delivered in a run
MaxPasses == 2       \* times beforeDone is fired over the same run

Refs == {"r1", "r2", "r3", "r4"}
CountingRefs == {"r1", "r2"}
Parents == {"p1", "p2"}
Names == {"status ok", "200"}
IndexNames == {"200"}      \* names that are canonical array indices
Times == {100, 200}
Sizes == {300}

-----------------------------------------------------------------------------
(* Generic helpers.                                                        *)

Undefined == <<>>

Some(v) == <<v>>

\* _.get(object, path, defaultValue): the default replaces undefined.
Get(opt, default) == IF opt = Undefined THEN default ELSE opt[1]

\* JavaScript truthiness of a possibly-undefined boolean.
Truthy(opt) == opt = Some(TRUE)

Put(f, k, v) == [x \in DOMAIN f \cup {k} |-> IF x = k THEN v ELSE f[x]]

EmptyObject == [x \in {} |-> 0]

SeqsUpTo(S, n) == UNION {[1..k -> S] : k \in 0..n}

RECURSIVE GCD(_, _)
GCD(a, b) == IF b = 0 THEN a ELSE GCD(b, a % b)

\* The JavaScript quotient a / b of two non-negative integers, as a fraction
\* in lowest terms; 0/0 (NaN) is [num |-> 0, den |-> 0].
Quotient(a, b) ==
    LET g == GCD(a, b)
    IN  IF g = 0 THEN [num |-> 0, den |-> 0]
        ELSE [num |-> a \div g, den |-> b \div g]

-----------------------------------------------------------------------------
(* Execution records, as the collection run hands them to the reporter.    *)

AGGREGATED_FIELDS == {"cursor", "item", "request", "response", "requestError"}

\* A response of the run: responseTime and responseSize may be undefined.
Response(time, size) ==
    [responseTime |-> time, responseSize |-> size, stream |-> "bytes"]

\* The parent of an item, as execution.item.parent() returns it.
Parent(p) == [id |-> p, description |-> <<"description of", p>>]

\* One record of run.executions.  A request that failed has a requestError
\* and no response.
Execution(ref, iteration, parent, response, outcomes) ==
    [cursor |-> [ref |-> ref, iteration |-> iteration],
     item |-> [id |-> <<"item", ref>>, parent |-> Parent(parent)],
     request |-> <<"request of", ref>>,
     response |-> response,
     requestError |-> IF response = Undefined THEN Some("ECONNREFUSED")
                      ELSE Undefined,
     assertions |-> outcomes]

\* An assertion outcome of a record: its name, the assertion error (or
\* undefined) and the skipped flag (true, false or undefined).
Outcome(name, error, skipped) ==
    [assertion |-> name, error |-> error, skipped |-> skipped]

Outcomes ==
    {Outcome(n, e, s) : n \in Names,
                        e \in {Undefined, Some("AssertionError")},
                        s \in {Undefined, Some(TRUE), Some(FALSE)}}

PassFailOutcomes ==
    {Outcome("status ok", e, Some(FALSE)) :
        e \in {Undefined, Some("AssertionError")}}

Responses ==
    {Undefined} \cup
    {Some(Response(t, s)) : t \in {Undefined} \cup {Some(x) : x \in Times},
                            s \in {Undefined} \cup {Some(x) : x \in Sizes}}

\* The records of a run: the k-th record of a ref carries iteration k - 1,
\* and every record of a ref has the parent of the ref's item.
Run(raw, parentOf) ==
    [i \in 1..Len(raw) |->
        Execution(raw[i].ref,
                  Cardinality({j \in 1..(i - 1) : raw[j].ref = raw[i].ref}),
                  parentOf[raw[i].ref],
                  raw[i].response,
                  raw[i].assertions)]

Raw(ref, response, outcomes) ==
    [ref |-> ref, response |-> response, assertions |-> outcomes]

\* The parents of the items, up to the renaming of p1 and p2.
ParentMaps == {parentOf \in [Refs -> Parents] : parentOf["r1"] = "p1"}

\* Runs of up to MaxExecutions failed requests over all refs and parents.
GroupingRuns ==
    {Run(raw, parentOf) :
        raw \in SeqsUpTo({Raw(r, Undefined, <<>>) : r \in Refs}, MaxExecutions),
        parentOf \in ParentMaps}

\* Runs of up to MaxSamples records without assertions over all responses.
TimingRuns ==
    {Run(raw, [r \in Refs |-> "p1"]) :
        raw \in SeqsUpTo({Raw(r, resp, <<>>) : r \in CountingRefs,
                                                 resp \in Responses},
                         MaxSamples)}

\* Runs of up to MaxIterations iterations of one request, each with up to
\* MaxAssertions passed or failed assertions of one name.
PassFailRuns ==
    {Run(raw, [r \in Refs |-> "p1"]) :
        raw \in SeqsUpTo({Raw("r1", Some(Response(Some(100), Some(300))), os) :
                             os \in SeqsUpTo(PassFailOutcomes, MaxAssertions)},
                         MaxIterations)}

\* Runs of up to MaxIterations records, each with one outcome of any name,
\* error and skipped flag.
OutcomeRuns ==
    {Run(raw, [r \in Refs |-> "p1"]) :
        raw \in SeqsUpTo({Raw(r, Some(Response(Some(100), Some(300))), <<o>>) :
                             r \in CountingRefs, o \in Outcomes},
                         MaxIterations)}

\* Records plus outcomes of a run.
RECURSIVE Weight(_)
Weight(list) ==
    IF list = <<>> THEN 0
    ELSE 1 + Len(Head(list).assertions) + Weight(Tail(list))

-----------------------------------------------------------------------------
(* The Reducer: the callback of _.transform(executions, ..., {}).          *)

ZeroCounts == [passed |-> 0, failed |-> 0, skipped |-> 0]

ZeroMeans == [time |-> [sum |-> 0, count |-> 0],
              size |-> [sum |-> 0, count |-> 0]]

\* _.get(currentExecution, 'response.responseTime', 0)
ResponseTime(execution) ==
    IF execution.response = Undefined THEN 0
    ELSE Get(execution.response[1].responseTime, 0)

\* _.get(currentExecution, 'response.responseSize', 0)
ResponseSize(execution) ==
    IF execution.response = Undefined THEN 0
    ELSE Get(execution.response[1].responseSize, 0)

\* response.toJSON() followed by the decoding of its stream into body.
ToJSON(response) ==
    [responseTime |-> response.responseTime,
     responseSize |-> response.responseSize,
     stream |-> [type |-> "Buffer", data |-> response.stream],
     body |-> <<"text of", response.stream>>]

\* _.pick(currentExecution, AGGREGATED_FIELDS) and the response conversion.
ReducedExecution(execution) ==
    LET picked == [f \in AGGREGATED_FIELDS |-> execution[f]]
    IN  IF picked.response # Undefined
        THEN [picked EXCEPT !.response = Some(ToJSON(picked.response[1]))]
        ELSE picked

\* Classify with the first test reduced to isError.
ClassifyErrorFirst(assertion) ==
    LET isError == assertion.error # Undefined
        isSkipped == assertion.skipped
    IN  IF isError THEN "failed"
        ELSE IF Truthy(isSkipped) THEN "skipped"
        ELSE IF isError = FALSE /\ isSkipped = Some(FALSE) THEN "passed"
        ELSE "none"

\* Classify with a plain else as its last branch.
ClassifyElsePassed(assertion) ==
    LET isError == assertion.error # Undefined
        isSkipped == assertion.skipped
    IN  IF isError /\ isSkipped # Some(TRUE) THEN "failed"
        ELSE IF Truthy(isSkipped) THEN "skipped"
        ELSE "passed"

\* The branch of the if / else if chain an assertion outcome takes.
Classify(assertion) ==
    LET isError == assertion.error # Undefined
        isSkipped == assertion.skipped
    IN  IF isError /\ isSkipped # Some(TRUE) THEN "failed"
        ELSE IF Truthy(isSkipped) THEN "skipped"
        ELSE IF isError = FALSE /\ isSkipped = Some(FALSE) THEN "passed"
        ELSE "none"

\* counts with the counter the outcome is classified as incremented.
Increment(counts, kind) ==
    IF kind = "none" THEN counts
    ELSE [counts EXCEPT ![kind] = @ + 1]

IndexValue(name) == CASE name = "200" -> 200

\* The position at which a new own property is enumerated: canonical array
\* indices come first, in ascending numeric order, then the other names in
\* the order of their creation.
RECURSIVE InsertAt(_, _)
InsertAt(entries, name) ==
    IF name \notin IndexNames THEN Len(entries) + 1
    ELSE IF entries = <<>> THEN 1
    ELSE IF /\ Head(entries).name \in IndexNames
            /\ IndexValue(Head(entries).name) < IndexValue(name)
         THEN 1 + InsertAt(Tail(entries), name)
    ELSE 1

\* result[executionId][assertionName] = result[executionId][assertionName] || {...}
EnsureEntry(entries, name) ==
    IF \E i \in 1..Len(entries) : entries[i].name = name THEN entries
    ELSE LET at == InsertAt(entries, name)
             fresh == [name |-> name, passed |-> 0, failed |-> 0, skipped |-> 0]
         IN  SubSeq(entries, 1, at - 1) \o <<fresh>>
                \o SubSeq(entries, at, Len(entries))

\* CountAssertion with ifs that are not chained by else and a first test
\* reduced to isError: a skipped outcome with an error is counted twice.
CountAssertionFallThrough(acc, assertion) ==
    LET name == assertion.assertion
        kind == Classify(assertion)
        both == assertion.error # Undefined /\ Truthy(assertion.skipped)
        ensured == EnsureEntry(acc.entries, name)
        bump(c) == IF both THEN [Increment(c, kind) EXCEPT !.failed = @ + 1]
                   ELSE Increment(c, kind)
    IN  [entries |-> [i \in 1..Len(ensured) |->
                        IF ensured[i].name = name THEN bump(ensured[i])
                        ELSE ensured[i]],
         net |-> bump(acc.net)]

\* CountAssertion without the increment of the net counter in the skipped
\* branch.
CountAssertionSkipsNet(acc, assertion) ==
    LET name == assertion.assertion
        kind == Classify(assertion)
        ensured == EnsureEntry(acc.entries, name)
    IN  [entries |-> [i \in 1..Len(ensured) |->
                        IF ensured[i].name = name /\ kind # "none"
                        THEN [ensured[i] EXCEPT ![kind] = @ + 1]
                        ELSE ensured[i]],
         net |-> IF kind = "skipped" THEN acc.net ELSE Increment(acc.net, kind)]

\* The body of _.forEach(currentExecution.assertions, ...) for one outcome:
\* acc.entries is result[executionId], acc.net is netTestCounts[executionId].
CountAssertion(acc, assertion) ==
    LET name == assertion.assertion
        kind == Classify(assertion)
        ensured == EnsureEntry(acc.entries, name)
    IN  [entries |-> [i \in 1..Len(ensured) |->
                        IF ensured[i].name = name /\ kind # "none"
                        THEN [ensured[i] EXCEPT ![kind] = @ + 1]
                        ELSE ensured[i]],
         net |-> Increment(acc.net, kind)]

RECURSIVE CountAssertions(_, _)
CountAssertions(acc, outcomes) ==
    IF outcomes = <<>> THEN acc
    ELSE CountAssertions(CountAssertion(acc, Head(outcomes)), Tail(outcomes))

\* The locals the handler starts with (lines 108 to 113 and the {} that
\* _.transform accumulates into).
FreshLocals ==
    [items |-> EmptyObject, executionMeans |-> EmptyObject,
     netTestCounts |-> EmptyObject, aggregations |-> <<>>,
     traversedRequests |-> EmptyObject, aggregatedExecutions |-> EmptyObject,
     assertions |-> EmptyObject]

\* The first-occurrence branch of the callback.
FirstSeen(st, currentExecution) ==
    LET executionId == currentExecution.cursor.ref
        reducedExecution == ReducedExecution(currentExecution)
    IN  [st EXCEPT
            !.traversedRequests = Put(@, executionId, 1),
            !.assertions = Put(@, executionId, <<>>),
            !.netTestCounts = Put(@, executionId, ZeroCounts),
            !.executionMeans = Put(@, executionId, ZeroMeans),
            !.items = Put(@, reducedExecution.cursor.ref, reducedExecution)]

\* Transform with a sample taken only from a record that has the value.
TransformSkipsAbsent(st, currentExecution) ==
    LET executionId == currentExecution.cursor.ref
        s1 == IF executionId \notin DOMAIN st.traversedRequests
              THEN FirstSeen(st, currentExecution)
              ELSE st
        means == s1.executionMeans[executionId]
        has(field) == /\ currentExecution.response # Undefined
                      /\ currentExecution.response[1][field] # Undefined
        counted == CountAssertions([entries |-> s1.assertions[executionId],
                                    net |-> s1.netTestCounts[executionId]],
                                   currentExecution.assertions)
    IN  [s1 EXCEPT
            !.executionMeans[executionId] =
                [time |-> IF has("responseTime")
                          THEN [sum |-> means.time.sum + ResponseTime(currentExecution),
                                count |-> means.time.count + 1]
                          ELSE means.time,
                 size |-> IF has("responseSize")
                          THEN [sum |-> means.size.sum + ResponseSize(currentExecution),
                                count |-> means.size.count + 1]
                          ELSE means.size],
            !.assertions[executionId] = counted.entries,
            !.netTestCounts[executionId] = counted.net]

\* Transform with the aggregates keyed by (ref, iteration): every record
\* starts its ref afresh.
TransformPerIteration(st, currentExecution) ==
    LET executionId == currentExecution.cursor.ref
        s1 == FirstSeen(st, currentExecution)
        counted == CountAssertions([entries |-> <<>>, net |-> ZeroCounts],
                                   currentExecution.assertions)
    IN  [s1 EXCEPT
            !.executionMeans[executionId] =
                [time |-> [sum |-> ResponseTime(currentExecution), count |-> 1],
                 size |-> [sum |-> ResponseSize(currentExecution), count |-> 1]],
            !.assertions[executionId] = counted.entries,
            !.netTestCounts[executionId] = counted.net]

\* Transform with the snapshot taken outside the first-occurrence branch:
\* every record of a ref replaces the snapshot of the ref.
TransformSnapshotsEvery(st, currentExecution) ==
    LET executionId == currentExecution.cursor.ref
        s2 == IF executionId \notin DOMAIN st.traversedRequests
              THEN FirstSeen(st, currentExecution)
              ELSE [st EXCEPT !.items[executionId] =
                                  ReducedExecution(currentExecution)]
        means == s2.executionMeans[executionId]
        counted == CountAssertions([entries |-> s2.assertions[executionId],
                                    net |-> s2.netTestCounts[executionId]],
                                   currentExecution.assertions)
    IN  [s2 EXCEPT
            !.executionMeans[executionId] =
                [time |-> [sum |-> means.time.sum + ResponseTime(currentExecution),
                           count |-> means.time.count + 1],
                 size |-> [sum |-> means.size.sum + ResponseSize(currentExecution),
                           count |-> means.size.count + 1]],
            !.assertions[executionId] = counted.entries,
            !.netTestCounts[executionId] = counted.net]

\* Transform with the counts incremented in an else of the first-occurrence
\* branch: the first record of a ref adds its sample and no count.
TransformCountsRepeats(st, currentExecution) ==
    LET executionId == currentExecution.cursor.ref
        isFirst == executionId \notin DOMAIN st.traversedRequests
        s1 == IF isFirst THEN FirstSeen(st, currentExecution) ELSE st
        means == s1.executionMeans[executionId]
        one == IF isFirst THEN 0 ELSE 1
        counted == CountAssertions([entries |-> s1.assertions[executionId],
                                    net |-> s1.netTestCounts[executionId]],
                                   currentExecution.assertions)
    IN  [s1 EXCEPT
            !.executionMeans[executionId] =
                [time |-> [sum |-> means.time.sum + ResponseTime(currentExecution),
                           count |-> means.time.count + one],
                 size |-> [sum |-> means.size.sum + ResponseSize(currentExecution),
                           count |-> means.size.count + one]],
            !.assertions[executionId] = counted.entries,
            !.netTestCounts[executionId] = counted.net]

\* The callback of _.transform for one record.
Transform(st, currentExecution) ==
    LET executionId == currentExecution.cursor.ref
        s1 == IF executionId \notin DOMAIN st.traversedRequests
              THEN FirstSeen(st, currentExecution)
              ELSE st
        means == s1.executionMeans[executionId]
        counted == CountAssertions([entries |-> s1.assertions[executionId],
                                    net |-> s1.netTestCounts[executionId]],
                                   currentExecution.assertions)
    IN  [s1 EXCEPT
            !.executionMeans[executionId] =
                [time |-> [sum |-> means.time.sum + ResponseTime(currentExecution),
                           count |-> means.time.count + 1],
                 size |-> [sum |-> means.size.sum + ResponseSize(currentExecution),
                           count |-> means.size.count + 1]],
            !.assertions[executionId] = counted.entries,
            !.netTestCounts[executionId] = counted.net]

\* The whole _.transform over a list.
RECURSIVE TransformFrom(_, _)
TransformFrom(st, list) ==
    IF list = <<>> THEN st
    ELSE TransformFrom(Transform(st, Head(list)), Tail(list))

-----------------------------------------------------------------------------
(* The Assembler: the aggregator closure applied by _.forEach.             *)

\* util.prettyms and util.filesize: opaque formatters of a number.
prettyms(q) == <<"prettyms", q>>

filesize(q) == <<"filesize", q>>

\* util.getFullName(parent)
getFullName(parent) == <<"full name of", parent.id>>

\* _.merge(object, source) for a source whose values replace the object's.
Merge(object, source) ==
    [f \in DOMAIN object \cup DOMAIN source |->
        IF f \in DOMAIN source THEN source[f] ELSE object[f]]

\* The aggregates merged into items[ref].
Aggregates(st, ref) ==
    LET aggregationMean == st.executionMeans[ref]
        meanTime == aggregationMean.time
        meanSize == aggregationMean.size
    IN  [assertions |-> st.assertions[ref],
         mean |-> [time |-> prettyms(Quotient(meanTime.sum, meanTime.count)),
                   size |-> filesize(Quotient(meanSize.sum, meanSize.count))],
         cumulativeTests |-> st.netTestCounts[ref]]

NewGroup(parent, iteration, current) ==
    [parent |-> [id |-> parent.id,
                 name |-> getFullName(parent),
                 description |-> parent.description,
                 iteration |-> iteration],
     executions |-> <<current>>]

\* Emit with the node put at the head of the last group's executions.
EmitUnshift(groups, parent, iteration, current) ==
    IF groups # <<>> /\ parent.id = groups[Len(groups)].parent.id
    THEN [groups EXCEPT ![Len(groups)].executions = <<current>> \o @]
    ELSE Append(groups, NewGroup(parent, iteration, current))

\* Emit with the node put into the first group of its parent id, wherever
\* that group is in the list.
EmitByKey(groups, parent, iteration, current) ==
    IF \E g \in 1..Len(groups) : groups[g].parent.id = parent.id
    THEN LET g == CHOOSE h \in 1..Len(groups) :
                    /\ groups[h].parent.id = parent.id
                    /\ \A k \in 1..(h - 1) : groups[k].parent.id # parent.id
         IN  [groups EXCEPT ![g].executions = Append(@, current)]
    ELSE Append(groups, NewGroup(parent, iteration, current))

\* The group list after the node current of a record with this parent is
\* emitted: lines 199 to 212.
Emit(groups, parent, iteration, current) ==
    IF groups # <<>> /\ parent.id = groups[Len(groups)].parent.id
    THEN [groups EXCEPT ![Len(groups)].executions = Append(@, current)]
    ELSE Append(groups, NewGroup(parent, iteration, current))

\* The aggregator without the early return on an already emitted ref.
AggregatorNoSeenSet(st, execution) ==
    LET ref == execution.cursor.ref
        merged == [st EXCEPT !.items[ref] = Merge(@, Aggregates(st, ref))]
    IN  [merged EXCEPT
            !.aggregatedExecutions = Put(@, ref, TRUE),
            !.aggregations = Emit(@, execution.item.parent,
                                  execution.cursor.iteration, ref)]

\* The aggregator for one record.  current is the object items[ref]; a group
\* holds it by reference, as its key in items.
Aggregator(st, execution) ==
    LET ref == execution.cursor.ref
        parent == execution.item.parent
        iteration == execution.cursor.iteration
        merged == [st EXCEPT !.items[ref] = Merge(@, Aggregates(st, ref))]
    IN  IF ref \in DOMAIN st.aggregatedExecutions
        THEN merged
        ELSE [merged EXCEPT
                !.aggregatedExecutions = Put(@, ref, TRUE),
                !.aggregations = Emit(@, parent, iteration, ref)]

RECURSIVE AggregateFrom(_, _)
AggregateFrom(st, list) ==
    IF list = <<>> THEN st
    ELSE AggregateFrom(Aggregator(st, Head(list)), Tail(list))

\* The groups as the template compiler reads them: every node reference
\* replaced by the object it points to.
Resolve(groups, objects) ==
    [g \in 1..Len(groups) |->
        [groups[g] EXCEPT !.executions =
            [n \in 1..Len(groups[g].executions) |-> objects[groups[g].executions[n]]]]]

\* ObjectOrUndefined with value || [] in the place of the test.
ObjectOrEmptyList(value) == Some(Get(value, <<>>))

\* _.isObject(value) ? value : undefined
ObjectOrUndefined(value) == IF value # Undefined THEN value ELSE Undefined

\* The argument of compiler(...): the fields this model follows.
Report(st, skipped, logs) ==
    [aggregations |-> Resolve(st.aggregations, st.items),
     summary |-> [skippedTests |-> ObjectOrUndefined(skipped),
                  consoleLogs |-> ObjectOrUndefined(logs)]]

-----------------------------------------------------------------------------
(* The events of the run.                                                  *)

NoError == Undefined

ChannelError == Some("channel error")

\* The second argument of an assertion event.
AssertionEvent(name, skipped) ==
    [cursor |-> [ref |-> "r1", iteration |-> 0, scriptId |-> "s1"],
     assertion |-> name,
     skipped |-> skipped,
     error |-> Undefined,
     item |-> [id |-> <<"item", "r1">>, name |-> "request 1"]]

\* The second argument of a console event.
ConsoleEvent(messages) ==
    [cursor |-> [ref |-> "r1", iteration |-> 0, scriptId |-> "s1"],
     level |-> "log",
     messages |-> messages]

\* The (err, o) pairs the assertion channel delivers.
AssertionEvents ==
    {<<ChannelError, AssertionEvent("status ok", Some(TRUE))>>} \cup
    {<<NoError, AssertionEvent(n, s)>> :
        n \in Names, s \in {Undefined, Some(TRUE), Some(FALSE)}}

\* The (err, o) pairs the console channel delivers.
ConsoleEvents ==
    {<<ChannelError, ConsoleEvent(<<"a">>)>>} \cup
    {<<NoError, ConsoleEvent(m)>> : m \in {<<"a">>, <<"b">>}}

\* The entry the assertion handler pushes: lines 72 to 85.
SkippedEntry(o) ==
    [cursor |-> [ref |-> o.cursor.ref, iteration |-> o.cursor.iteration,
                 scriptId |-> o.cursor.scriptId],
     assertion |-> o.assertion,
     skipped |-> o.skipped,
     error |-> o.error,
     item |-> [id |-> o.item.id, name |-> o.item.name]]

\* The entry the console handler pushes: lines 96 to 104.
ConsoleEntry(o) ==
    [cursor |-> [ref |-> o.cursor.ref, iteration |-> o.cursor.iteration,
                 scriptId |-> o.cursor.scriptId],
     level |-> o.level,
     messages |-> o.messages]

\* Push with unshift in the place of push.
PushFront(list, entry) == Some(<<entry>> \o Get(list, <<>>))

\* list = list || []; list.push(entry)
Push(list, entry) == Some(Append(Get(list, <<>>), entry))

\* The run still has room for an event: up to MaxEvents events in a run
\* without records, and one fewer for every record and outcome of the run.
EventRoom == Len(delivered) + Weight(executions) < MaxEvents

\* newman.on('assertion', function (err, o) {...})
OnAssertion(err, o) ==
    /\ EventRoom
    /\ delivered' = Append(delivered, [channel |-> "assertion", err |-> err, o |-> o])
    /\ skippedTests' = IF err # NoError THEN skippedTests
                       ELSE IF Truthy(o.skipped) THEN Push(skippedTests, SkippedEntry(o))
                       ELSE skippedTests
    /\ UNCHANGED <<executions, consoleLogs, exports, locals>>

\* OnConsole without the return on a channel error.
OnConsoleIgnoresErr(err, o) ==
    /\ EventRoom
    /\ delivered' = Append(delivered, [channel |-> "console", err |-> err, o |-> o])
    /\ consoleLogs' = Push(consoleLogs, ConsoleEntry(o))
    /\ UNCHANGED <<executions, skippedTests, exports, locals>>

\* newman.on('console', function (err, o) {...})
OnConsole(err, o) ==
    /\ EventRoom
    /\ delivered' = Append(delivered, [channel |-> "console", err |-> err, o |-> o])
    /\ consoleLogs' = IF err # NoError THEN consoleLogs
                      ELSE Push(consoleLogs, ConsoleEntry(o))
    /\ UNCHANGED <<executions, skippedTests, exports, locals>>

-----------------------------------------------------------------------------
(* newman.on('beforeDone', function () {...})                              *)

Locals ==
    [items |-> items, executionMeans |-> executionMeans,
     netTestCounts |-> netTestCounts, aggregations |-> aggregations,
     traversedRequests |-> traversedRequests,
     aggregatedExecutions |-> aggregatedExecutions,
     assertions |-> assertions]

SetLocals(st) ==
    /\ items' = st.items
    /\ executionMeans' = st.executionMeans
    /\ netTestCounts' = st.netTestCounts
    /\ aggregations' = st.aggregations
    /\ traversedRequests' = st.traversedRequests
    /\ aggregatedExecutions' = st.aggregatedExecutions
    /\ assertions' = st.assertions

\* EnterLocals with the maps of the Reducer declared outside the handler:
\* only the group list and its seen-set are created by the call.
EnterLocalsKeepsReducerMaps(st) ==
    [st EXCEPT !.aggregations = <<>>, !.aggregatedExecutions = EmptyObject]

\* The locals a call of the handler starts from, st being what the call
\* before it left: every call creates its own.
EnterLocals(st) == FreshLocals

\* Pass with the skipped counter of a ref raised by the skipped tests the
\* assertion channel has collected for it.
PassCountsCollected(st, list) ==
    LET reduced == TransformFrom(st, list)
        collected == Get(skippedTests, <<>>)
        extra(r) == Cardinality({i \in 1..Len(collected) :
                                    collected[i].cursor.ref = r})
        counted == [reduced EXCEPT
                       !.netTestCounts =
                           [r \in DOMAIN @ |->
                               [@[r] EXCEPT !.skipped = @ + extra(r)]]]
    IN  AggregateFrom(counted, list)

\* The locals when the handler returns: _.transform over the executions,
\* then _.forEach of the aggregator over the same list.
Pass(st, list) == AggregateFrom(TransformFrom(st, list), list)

\* The handler: both passes over the list and the push of the report.  The
\* run fires it once; a second firing over the same run is what re-running
\* the pass means.
BeforeDone ==
    /\ Len(exports) < MaxPasses
    /\ LET done == Pass(EnterLocals(Locals), executions)
       IN  /\ SetLocals(done)
           /\ exports' = Append(exports, Report(done, skippedTests, consoleLogs))
    /\ UNCHANGED <<executions, summaryLists>>

Init ==
    /\ executions \in GroupingRuns \cup TimingRuns \cup PassFailRuns \cup OutcomeRuns
    /\ skippedTests = Undefined
    /\ consoleLogs = Undefined
    /\ delivered = <<>>
    /\ exports = <<>>
    /\ items = FreshLocals.items
    /\ executionMeans = FreshLocals.executionMeans
    /\ netTestCounts = FreshLocals.netTestCounts
    /\ aggregations = FreshLocals.aggregations
    /\ traversedRequests = FreshLocals.traversedRequests
    /\ aggregatedExecutions = FreshLocals.aggregatedExecutions
    /\ assertions = FreshLocals.assertions

Next ==
    \/ \E e \in AssertionEvents : OnAssertion(e[1], e[2])
    \/ \E e \in ConsoleEvents : OnConsole(e[1], e[2])
    \/ BeforeDone

Spec == Init /\ [][Next]_vars

-----------------------------------------------------------------------------
(* What the claims speak of.                                               *)

\* The reports pushed so far.
Reports == {exports[e] : e \in 1..Len(exports)}

\* The distinct cursor.ref values of a list.
RefsOf(list) == {list[i].cursor.ref : i \in 1..Len(list)}

\* The records of a list that are the first of their ref, in list order.
RECURSIVE FirstRecordsFrom(_, _)
FirstRecordsFrom(list, seen) ==
    IF list = <<>> THEN <<>>
    ELSE IF Head(list).cursor.ref \in seen THEN FirstRecordsFrom(Tail(list), seen)
    ELSE <<Head(list)>>
            \o FirstRecordsFrom(Tail(list), seen \cup {Head(list).cursor.ref})

FirstRecords(list) == FirstRecordsFrom(list, {})

\* The nodes of all groups, in the order the groups were emitted.
RECURSIVE Flatten(_)
Flatten(groups) ==
    IF groups = <<>> THEN <<>>
    ELSE Head(groups).executions \o Flatten(Tail(groups))

NodeRefs(groups) ==
    LET nodes == Flatten(groups)
    IN  [n \in 1..Len(nodes) |-> nodes[n].cursor.ref]

\* C1: in every report, the groups hold as many nodes as the execution list
\* has distinct refs, and every distinct ref is the ref of exactly one node
\* at exactly one position of one group.
C1_OneNodePerRef ==
    \A rep \in Reports :
        LET refs == NodeRefs(rep.aggregations)
        IN  /\ Len(refs) = Cardinality(RefsOf(executions))
            /\ \A r \in RefsOf(executions) :
                  Cardinality({n \in 1..Len(refs) : refs[n] = r}) = 1

\* A report of a run of four records over two refs, both repeated.
C1_Witness ==
    /\ exports # <<>>
    /\ Len(executions) = 4
    /\ Cardinality(RefsOf(executions)) = 2
    /\ executions[1].cursor.ref = executions[3].cursor.ref
    /\ executions[2].cursor.ref = executions[4].cursor.ref
    /\ Len(NodeRefs(exports[1].aggregations)) = 2

\* C2: in every report, the refs of the nodes of all groups, concatenated in
\* the order of the groups, are the distinct refs of the execution list in
\* the order of their first occurrence.
C2_RunOrder ==
    \A rep \in Reports :
        LET firsts == FirstRecords(executions)
        IN  NodeRefs(rep.aggregations) =
                [n \in 1..Len(firsts) |-> firsts[n].cursor.ref]

\* A report of the run r3, r1, r3, r2 with two nodes in one group.
C2_Witness ==
    /\ exports # <<>>
    /\ Len(executions) = 4
    /\ [i \in 1..4 |-> executions[i].cursor.ref] = <<"r3", "r1", "r3", "r2">>
    /\ NodeRefs(exports[1].aggregations) = <<"r3", "r1", "r2">>
    /\ \E g \in 1..Len(exports[1].aggregations) :
          Len(exports[1].aggregations[g].executions) >= 2

\* The parent ids of the first-occurrence records, in order.
FirstParents(list) ==
    LET firsts == FirstRecords(list)
    IN  [n \in 1..Len(firsts) |-> firsts[n].item.parent.id]

GroupSizes(groups) == [g \in 1..Len(groups) |-> Len(groups[g].executions)]

\* C3: in every report the groups are the maximal runs of equal parent id
\* of the first-occurrence records: the nodes are those records in order,
\* no group is empty, every node has the parent id of its group, two
\* consecutive groups differ in parent id; parents p1, p1, p2, p1 give
\* groups of sizes 2, 1, 1.
C3_AdjacencyGroups ==
    \A rep \in Reports :
        LET groups == rep.aggregations
            firsts == FirstRecords(executions)
        IN  /\ NodeRefs(groups) = [n \in 1..Len(firsts) |-> firsts[n].cursor.ref]
            /\ \A g \in 1..Len(groups) :
                  /\ groups[g].executions # <<>>
                  /\ \A n \in 1..Len(groups[g].executions) :
                        groups[g].executions[n].item.parent.id = groups[g].parent.id
            /\ \A g \in 1..(Len(groups) - 1) :
                  groups[g].parent.id # groups[g + 1].parent.id
            /\ FirstParents(executions) = <<"p1", "p1", "p2", "p1">>
                  => GroupSizes(groups) = <<2, 1, 1>>

\* A report of a run whose four records have parents p1, p1, p2, p1.
C3_Witness ==
    /\ exports # <<>>
    /\ FirstParents(executions) = <<"p1", "p1", "p2", "p1">>
    /\ GroupSizes(exports[1].aggregations) = <<2, 1, 1>>
    /\ [g \in 1..3 |-> exports[1].aggregations[g].parent.id] = <<"p1", "p2", "p1">>

\* The classification as the data model states it.
IsFailed(a) == a.error # Undefined /\ a.skipped # Some(TRUE)

IsSkipped(a) == a.skipped = Some(TRUE)

IsPassed(a) == a.error = Undefined /\ a.skipped = Some(FALSE)

InGap(a) == ~IsFailed(a) /\ ~IsSkipped(a) /\ ~IsPassed(a)

\* The numbers of outcomes of a list of outcomes that are passed, failed and
\* skipped, among those whose name is in names.
Tally(outcomes, names) ==
    LET named == {i \in 1..Len(outcomes) : outcomes[i].assertion \in names}
    IN  [passed |-> Cardinality({i \in named : IsPassed(outcomes[i])}),
         failed |-> Cardinality({i \in named : IsFailed(outcomes[i])}),
         skipped |-> Cardinality({i \in named : IsSkipped(outcomes[i])})]

Plus(c, d) ==
    [passed |-> c.passed + d.passed, failed |-> c.failed + d.failed,
     skipped |-> c.skipped + d.skipped]

Total(c) == c.passed + c.failed + c.skipped

\* The counters of a name in the entries of a ref, zero when it has none.
EntryCounts(entries, name) ==
    IF \E i \in 1..Len(entries) : entries[i].name = name
    THEN LET e == entries[CHOOSE i \in 1..Len(entries) : entries[i].name = name]
         IN  [passed |-> e.passed, failed |-> e.failed, skipped |-> e.skipped]
    ELSE ZeroCounts

\* The counters of a ref in a map of counters, zero when it has none.
CountsOf(map, ref) == IF ref \in DOMAIN map THEN map[ref] ELSE ZeroCounts

EntriesOf(map, ref) == IF ref \in DOMAIN map THEN map[ref] ELSE <<>>

\* The locals of the Reducer when its callback has returned from the k-th
\* record of the list.
ReducerAfter(k) == TransformFrom(FreshLocals, SubSeq(executions, 1, k))

\* C4: in every pass of the handler, the call of the Reducer's callback on
\* any record of the list adds to the failed, skipped and passed counters of
\* the record's ref, and of each assertion name, the numbers of the record's
\* outcomes that have an error and are not skipped, that have skipped true,
\* and that have no error and skipped false; so an outcome of any other
\* combination adds nothing and no outcome adds to two counters.
C4_Classification ==
    [][exports' # exports =>
        /\ netTestCounts' = ReducerAfter(Len(executions)).netTestCounts
        /\ assertions' = ReducerAfter(Len(executions)).assertions
        /\ \A k \in 1..Len(executions) :
              LET rec == executions[k]
                  ref == rec.cursor.ref
                  before == ReducerAfter(k - 1)
                  after == ReducerAfter(k)
              IN  /\ after.netTestCounts[ref] =
                        Plus(CountsOf(before.netTestCounts, ref),
                             Tally(rec.assertions, Names))
                  /\ \A n \in Names :
                        EntryCounts(after.assertions[ref], n) =
                            Plus(EntryCounts(EntriesOf(before.assertions, ref), n),
                                 Tally(rec.assertions, {n}))
                  /\ Total(after.netTestCounts[ref])
                        - Total(CountsOf(before.netTestCounts, ref))
                        <= Len(rec.assertions)]_vars

\* The handler has run over one record whose one outcome has no error and
\* an undefined skipped flag, and every counter of its ref is zero.
C4_Witness ==
    /\ exports # <<>>
    /\ Len(executions) = 1
    /\ executions[1].assertions = <<Outcome("status ok", Undefined, Undefined)>>
    /\ netTestCounts[executions[1].cursor.ref] = ZeroCounts
    /\ EntryCounts(assertions[executions[1].cursor.ref], "status ok") = ZeroCounts

\* An outcome with skipped true and an error.
IsSkippedWithError(a) == a.skipped = Some(TRUE) /\ a.error # Undefined

\* C5: in every pass of the handler, the call of the callback on a record
\* with j outcomes that have skipped true and an error adds at least j to
\* the skipped counter, and at most the number of the record's other
\* outcomes to the failed counter, of the ref and, counting the outcomes of
\* a name, of that name.
C5_SkippedWithError ==
    [][exports' # exports =>
        \A k \in 1..Len(executions) :
            LET rec == executions[k]
                ref == rec.cursor.ref
                before == ReducerAfter(k - 1)
                after == ReducerAfter(k)
                of(n) == {i \in 1..Len(rec.assertions) :
                            rec.assertions[i].assertion \in n}
                j(n) == Cardinality({i \in of(n) :
                                        IsSkippedWithError(rec.assertions[i])})
                netBefore == CountsOf(before.netTestCounts, ref)
                netAfter == IF k = Len(executions) THEN netTestCounts'[ref]
                            ELSE after.netTestCounts[ref]
            IN  /\ netAfter.skipped >= netBefore.skipped + j(Names)
                /\ netAfter.failed
                      <= netBefore.failed + Cardinality(of(Names)) - j(Names)
                /\ \A n \in Names :
                      LET b == EntryCounts(EntriesOf(before.assertions, ref), n)
                          a == EntryCounts(IF k = Len(executions) THEN assertions'[ref]
                                           ELSE after.assertions[ref], n)
                      IN  /\ a.skipped >= b.skipped + j({n})
                          /\ a.failed <= b.failed + Cardinality(of({n})) - j({n})]_vars

\* The handler has run over one record whose one outcome has skipped true
\* and an error: skipped is 1 and failed is 0 in both counters.
C5_Witness ==
    /\ exports # <<>>
    /\ Len(executions) = 1
    /\ executions[1].assertions =
          <<Outcome("status ok", Some("AssertionError"), Some(TRUE))>>
    /\ netTestCounts[executions[1].cursor.ref] =
          [passed |-> 0, failed |-> 0, skipped |-> 1]
    /\ EntryCounts(assertions[executions[1].cursor.ref], "status ok") =
          [passed |-> 0, failed |-> 0, skipped |-> 1]

\* All outcomes of the records of a ref, in list order.
RECURSIVE OutcomesOf(_, _)
OutcomesOf(list, ref) ==
    IF list = <<>> THEN <<>>
    ELSE (IF Head(list).cursor.ref = ref THEN Head(list).assertions ELSE <<>>)
            \o OutcomesOf(Tail(list), ref)

\* The nodes of a report.
Nodes(rep) ==
    LET nodes == Flatten(rep.aggregations)
    IN  {nodes[n] : n \in 1..Len(nodes)}

\* Two iterations of r1: two passed, then one passed and one failed.
IsScenarioRun ==
    /\ Len(executions) = 2
    /\ \A i \in 1..2 : executions[i].cursor.ref = "r1"
    /\ executions[1].assertions = <<Outcome("status ok", Undefined, Some(FALSE)),
                                    Outcome("status ok", Undefined, Some(FALSE))>>
    /\ executions[2].assertions = <<Outcome("status ok", Undefined, Some(FALSE)),
                                    Outcome("status ok", Some("AssertionError"),
                                            Some(FALSE))>>

\* C6: in every report, the cumulativeTests of a node are the numbers of
\* passed, failed and skipped outcomes over all records of the node's ref,
\* whatever their iteration, and the tally of each assertion name of the
\* node is the same over the outcomes of that name; the two iterations of
\* the scenario give one node with passed 3, failed 1, skipped 0.
C6_KeyedByRef ==
    \A rep \in Reports :
        /\ \A node \in Nodes(rep) :
              LET all == OutcomesOf(executions, node.cursor.ref)
              IN  /\ node.cumulativeTests = Tally(all, Names)
                  /\ \A n \in Names :
                        EntryCounts(node.assertions, n) = Tally(all, {n})
        /\ IsScenarioRun =>
              /\ Len(Flatten(rep.aggregations)) = 1
              /\ Flatten(rep.aggregations)[1].cumulativeTests =
                    [passed |-> 3, failed |-> 1, skipped |-> 0]

\* A report of the scenario run.
C6_Witness ==
    /\ IsScenarioRun
    /\ exports # <<>>
    /\ Flatten(exports[1].aggregations)[1].cumulativeTests =
          [passed |-> 3, failed |-> 1, skipped |-> 0]

\* C7: in every report, passed + failed + skipped of a node's
\* cumulativeTests is at most the number of outcomes on the records of the
\* node's ref, and is less only if one of these outcomes is neither passed,
\* failed nor skipped.
C7_CountedAtMostOnce ==
    \A rep \in Reports :
        \A node \in Nodes(rep) :
            LET all == OutcomesOf(executions, node.cursor.ref)
            IN  /\ Total(node.cumulativeTests) <= Len(all)
                /\ Total(node.cumulativeTests) < Len(all)
                      => \E i \in 1..Len(all) : InGap(all[i])

\* A report with a node of two outcomes, on two records, of which one is
\* counted and the other is neither passed, failed nor skipped.
C7_Witness ==
    /\ exports # <<>>
    /\ Len(executions) = 2
    /\ \E node \in Nodes(exports[1]) :
          LET all == OutcomesOf(executions, node.cursor.ref)
          IN  /\ Len(all) = 2
              /\ InGap(all[1])
              /\ IsFailed(all[2])
              /\ node.cumulativeTests = [passed |-> 0, failed |-> 1, skipped |-> 0]

\* The sum of val over the indices S, taken in no particular order.
RECURSIVE SetSum(_, _)
SetSum(S, val) ==
    IF S = {} THEN 0
    ELSE LET x == CHOOSE y \in S : TRUE
         IN  val[x] + SetSum(S \ {x}, val)

\* The value of a field of a record's response, 0 when the record has no
\* response or the response has no such field.
Sample(rec, field) ==
    IF rec.response = Undefined THEN 0
    ELSE IF rec.response[1][field] = Undefined THEN 0
    ELSE rec.response[1][field][1]

\* The sum and count of a field over all records of a ref.
Samples(list, ref, field) ==
    LET of == {i \in 1..Len(list) : list[i].cursor.ref = ref}
    IN  [sum |-> SetSum(of, [i \in of |-> Sample(list[i], field)]),
         count |-> Cardinality(of)]

\* The lists with the records of executions in some order.
Reorderings ==
    {[i \in 1..Len(executions) |-> executions[p[i]]] :
        p \in Permutations(1..Len(executions))}

\* C8: when the handler has run, the time sum and count of every ref are
\* the sum of the response times of all records of the ref, an absent one
\* counted as 0, and the number of these records; likewise for size.  The
\* Reducer computes the sums and counts the first pass has left from every
\* reordering of the list.  In every report the mean time and size of a
\* node are the formatted quotients of these sums and counts.
C8_Means ==
    /\ exports # <<>> =>
          \A r \in RefsOf(executions) :
              /\ executionMeans[r].time = Samples(executions, r, "responseTime")
              /\ executionMeans[r].size = Samples(executions, r, "responseSize")
    /\ Len(exports) = 1 =>
          \A list \in Reorderings :
              TransformFrom(FreshLocals, list).executionMeans = executionMeans
    /\ \A rep \in Reports :
          \A node \in Nodes(rep) :
              LET time == Samples(executions, node.cursor.ref, "responseTime")
                  size == Samples(executions, node.cursor.ref, "responseSize")
              IN  /\ node.mean.time = prettyms(Quotient(time.sum, time.count))
                  /\ node.mean.size = filesize(Quotient(size.sum, size.count))

\* A report of two records of one ref, the first without a response, the
\* second with response time 200 and size 300: the mean time is 200 / 2 and
\* the mean size 300 / 2.
C8_Witness ==
    /\ exports # <<>>
    /\ Len(executions) = 2
    /\ RefsOf(executions) = {"r1"}
    /\ executions[1].response = Undefined
    /\ executions[2].response = Some(Response(Some(200), Some(300)))
    /\ \A node \in Nodes(exports[1]) :
          /\ node.mean.time = prettyms([num |-> 100, den |-> 1])
          /\ node.mean.size = filesize([num |-> 150, den |-> 1])

\* C9: a pass of the handler leaves the aggregate state a pass over freshly
\* created state leaves, whatever the pass before it left; the report it
\* pushes has the same groups, nodes, counters and means as every report
\* pushed before it over the same execution list; and no step changes the
\* execution list.
C9_Idempotent ==
    [][/\ exports' # exports =>
             /\ Locals' = Pass(FreshLocals, executions)
             /\ \A rep \in Reports :
                   rep.aggregations = exports'[Len(exports')].aggregations
       /\ executions' = executions]_vars

\* Two reports of a run with a repeated ref and a counted outcome.
C9_Witness ==
    /\ Len(exports) = 2
    /\ Len(executions) >= 2
    /\ executions[1].cursor.ref = executions[2].cursor.ref
    /\ exports[1].aggregations = exports[2].aggregations
    /\ \E node \in Nodes(exports[2]) : Total(node.cumulativeTests) >= 2

\* The entries the assertion events of a history leave in the
\* skipped-tests list.
RECURSIVE SkippedOf(_)
SkippedOf(history) ==
    IF history = <<>> THEN <<>>
    ELSE (IF /\ Head(history).channel = "assertion"
             /\ Head(history).err = NoError
             /\ Head(history).o.skipped = Some(TRUE)
          THEN <<Head(history).o>> ELSE <<>>) \o SkippedOf(Tail(history))

\* The entries the console events of a history leave in the console-log list.
RECURSIVE LogsOf(_)
LogsOf(history) ==
    IF history = <<>> THEN <<>>
    ELSE (IF Head(history).channel = "console" /\ Head(history).err = NoError
          THEN <<Head(history).o>> ELSE <<>>) \o LogsOf(Tail(history))

IsPrefix(s, t) == Len(s) <= Len(t) /\ SubSeq(t, 1, Len(s)) = s

\* C10: the skipped-tests list holds, in arrival order, the assertion events
\* delivered without a channel error and with a truthy skipped, the
\* console-log list holds, in arrival order, the console events delivered
\* without a channel error, and every step leaves the entries of both lists
\* in place as a prefix of the new list.
C10_AppendOnly ==
    /\ [](/\ Get(skippedTests, <<>>) = SkippedOf(delivered)
          /\ Get(consoleLogs, <<>>) = LogsOf(delivered))
    /\ [][/\ IsPrefix(Get(skippedTests, <<>>), Get(skippedTests', <<>>))
          /\ IsPrefix(Get(consoleLogs, <<>>), Get(consoleLogs', <<>>))]_vars

\* Two events have arrived, skipped assertions "200" and "status ok": the
\* list holds both, in this order.
C10_Witness ==
    /\ Len(delivered) = 2
    /\ skippedTests = Some(<<AssertionEvent("200", Some(TRUE)),
                             AssertionEvent("status ok", Some(TRUE))>>)
    /\ consoleLogs = Undefined

\* The event the last step has delivered.
Last(history) == history[Len(history)]

IsDelivery == Len(delivered') = Len(delivered) + 1

\* C11: a step that delivers an assertion or console event with a channel
\* error leaves the skipped-tests list, the console-log list, the execution
\* list, the reports and the aggregates as they were; a list that was
\* absent is absent after it.
C11_ErrorDropped ==
    [][(IsDelivery /\ Last(delivered').err # NoError) =>
          /\ UNCHANGED <<executions, skippedTests, consoleLogs, exports, locals>>
          /\ (skippedTests = Undefined => skippedTests' = Undefined)
          /\ (consoleLogs = Undefined => consoleLogs' = Undefined)]_vars

\* An assertion event with a truthy skipped and a console event have both
\* arrived with a channel error, and neither list exists.
C11_Witness ==
    /\ Len(delivered) = 2
    /\ \E i, j \in 1..2 :
          /\ delivered[i].channel = "assertion"
          /\ delivered[i].err = ChannelError
          /\ delivered[i].o.skipped = Some(TRUE)
          /\ delivered[j].channel = "console"
          /\ delivered[j].err = ChannelError
    /\ skippedTests = Undefined
    /\ consoleLogs = Undefined

\* C12: the report a pass of the handler pushes has summary.skippedTests
\* iff an assertion event without channel error and with truthy skipped has
\* been delivered before the pass, and summary.consoleLogs iff a console
\* event without channel error has; a field that is present holds the
\* entries of these events and is never an empty list.
C12_PresentIffPopulated ==
    [][exports' # exports =>
          LET summary == Last(exports').summary
          IN  /\ summary.skippedTests # Undefined <=> SkippedOf(delivered) # <<>>
              /\ summary.consoleLogs # Undefined <=> LogsOf(delivered) # <<>>
              /\ summary.skippedTests # Undefined =>
                    /\ summary.skippedTests[1] # <<>>
                    /\ summary.skippedTests[1] = SkippedOf(delivered)
              /\ summary.consoleLogs # Undefined =>
                    /\ summary.consoleLogs[1] # <<>>
                    /\ summary.consoleLogs[1] = LogsOf(delivered)]_vars

\* A report pushed after a skipped assertion event and a console event with
\* a channel error: it has the skipped test and no consoleLogs field.
C12_Witness ==
    /\ Len(exports) = 1
    /\ Len(delivered) = 2
    /\ delivered[1].channel = "assertion"
    /\ delivered[2].channel = "console"
    /\ delivered[2].err = ChannelError
    /\ exports[1].summary.skippedTests # Undefined
    /\ Len(exports[1].summary.skippedTests[1]) = 1
    /\ exports[1].summary.consoleLogs = Undefined

\* The groups the Reducer and the Assembler make of the execution list when
\* no event has been delivered.
GroupsOfExecutions ==
    LET done == AggregateFrom(TransformFrom(FreshLocals, executions), executions)
    IN  Resolve(done.aggregations, done.items)

FirstOf(list, ref) ==
    list[CHOOSE i \in 1..Len(list) :
            /\ list[i].cursor.ref = ref
            /\ \A j \in 1..(i - 1) : list[j].cursor.ref # ref]

\* The snapshot of a record: its aggregated fields, the response in the
\* form its toJSON gives, with the decoded body.
SnapshotOf(rec) ==
    [cursor |-> rec.cursor, item |-> rec.item, request |-> rec.request,
     response |-> IF rec.response = Undefined THEN Undefined
                  ELSE Some(ToJSON(rec.response[1])),
     requestError |-> rec.requestError]

\* C14: in every report the cursor (with its iteration), item, request,
\* response and requestError of a node are those of the first record of
\* the list that has the node's ref, and when the handler has run the
\* snapshot kept for every ref is that of the first record, whatever the
\* later records of the ref hold and whatever the Assembler has merged.
C14_FirstSnapshot ==
    /\ \A rep \in Reports :
          \A node \in Nodes(rep) :
              [f \in AGGREGATED_FIELDS |-> node[f]]
                  = SnapshotOf(FirstOf(executions, node.cursor.ref))
    /\ exports # <<>> =>
          \A r \in RefsOf(executions) :
              /\ [f \in AGGREGATED_FIELDS |-> items[r][f]]
                    = SnapshotOf(FirstOf(executions, r))
              /\ items[r].cursor.iteration = 0

\* A report of two records of r1: the first has a response of time 100, the
\* second is a failed request.  The node has the first record's response,
\* iteration 0 and no requestError.
C14_Witness ==
    /\ exports # <<>>
    /\ Len(executions) = 2
    /\ RefsOf(executions) = {"r1"}
    /\ executions[1].response = Some(Response(Some(100), Some(300)))
    /\ executions[2].response = Undefined
    /\ executions[2].cursor.iteration = 1
    /\ \A node \in Nodes(exports[1]) :
          /\ node.cursor.iteration = 0
          /\ node.requestError = Undefined
          /\ node.response # Undefined
          /\ node.response[1].responseTime = Some(100)

\* The number of records of a list that have the ref.
RecordsOf(list, ref) ==
    Cardinality({i \in 1..Len(list) : list[i].cursor.ref = ref})

\* C15: when the handler has run, the ref of every record of the list has
\* sums and counts, and its time count and size count are the number of
\* records of the ref, which is at least 1; in every report the quotient
\* behind the mean time and the mean size of a node has a divisor that is
\* not zero.
C15_NoZeroCount ==
    /\ exports # <<>> =>
          \A k \in 1..Len(executions) :
              LET ref == executions[k].cursor.ref
              IN  /\ ref \in DOMAIN executionMeans
                  /\ executionMeans[ref].time.count = RecordsOf(executions, ref)
                  /\ executionMeans[ref].size.count = RecordsOf(executions, ref)
                  /\ executionMeans[ref].time.count > 0
                  /\ executionMeans[ref].size.count > 0
    /\ \A rep \in Reports :
          \A node \in Nodes(rep) :
              /\ node.mean.time[2].den > 0
              /\ node.mean.size[2].den > 0

\* A report of a run whose only record is a failed request: its ref has
\* sum 0 and count 1, and the mean time is the formatted 0 / 1.
C15_Witness ==
    /\ exports # <<>>
    /\ Len(executions) = 1
    /\ executions[1].response = Undefined
    /\ executionMeans[executions[1].cursor.ref].time = [sum |-> 0, count |-> 1]
    /\ \A node \in Nodes(exports[1]) :
          node.mean.time = prettyms([num |-> 0, den |-> 1])

\* The distinct assertion names of a list of outcomes, in the order of
\* their first appearance.
RECURSIVE FirstSeenNamesFrom(_, _)
FirstSeenNamesFrom(outcomes, seen) ==
    IF outcomes = <<>> THEN <<>>
    ELSE IF Head(outcomes).assertion \in seen
         THEN FirstSeenNamesFrom(Tail(outcomes), seen)
    ELSE <<Head(outcomes).assertion>>
            \o FirstSeenNamesFrom(Tail(outcomes),
                                  seen \cup {Head(outcomes).assertion})

FirstSeenNames(outcomes) == FirstSeenNamesFrom(outcomes, {})

NamesOf(entries) == [i \in 1..Len(entries) |-> entries[i].name]

\* C16: in every report the assertions of a node name every assertion name
\* of the records of the node's ref once, in the order of the first
\* appearance of the names, and a name whose outcomes are all neither
\* passed, failed nor skipped has an entry with three zero counters.
C16_FirstSeenOrder ==
    \A rep \in Reports :
        \A node \in Nodes(rep) :
            LET all == OutcomesOf(executions, node.cursor.ref)
            IN  /\ NamesOf(node.assertions) = FirstSeenNames(all)
                /\ \A n \in Names :
                      (/\ \E i \in 1..Len(all) : all[i].assertion = n
                       /\ \A i \in 1..Len(all) :
                             all[i].assertion = n => InGap(all[i]))
                          => \E i \in 1..Len(node.assertions) :
                                node.assertions[i] =
                                    [name |-> n, passed |-> 0,
                                     failed |-> 0, skipped |-> 0]

\* The sums of the counters of the entries of a ref.
RECURSIVE SumOfEntries(_)
SumOfEntries(entries) ==
    IF entries = <<>> THEN ZeroCounts
    ELSE Plus(EntryCounts(<<Head(entries)>>, Head(entries).name),
              SumOfEntries(Tail(entries)))

AtMost(c, d) ==
    c.passed <= d.passed /\ c.failed <= d.failed /\ c.skipped <= d.skipped

\* The per-name counters of every ref add up to the net counters of the ref.
Agree(byName, net) ==
    /\ DOMAIN byName = DOMAIN net
    /\ \A r \in DOMAIN net : SumOfEntries(byName[r]) = net[r]

=============================================================================
